---- MODULE Spec2Model ----
(***************************************************************************)
(* Model of the hermes scheduling engine (src/hermes/schedule.py).         *)
(*                                                                         *)
(* A Schedule owns a registry of Events and a ConstraintModel, a wrapper   *)
(* of the CP-SAT solver.  add_event / not_within declare events and rules, *)
(* populate pins pre-existing tags, compiles every rule into constraints   *)
(* of the model, solves, and converts the solver's values into Tags.       *)
(*                                                                         *)
(* Time.  datetime/timedelta values are counted in ticks, TPS ticks to the *)
(* second, so that the sub-second part the code drops in                   *)
(* int(x.timestamp()) and int(d.total_seconds()) is visible.  Solver       *)
(* variables are whole seconds.  A calendar day is DaySecs seconds long    *)
(* (the model is not to scale; every rule of the code is linear in time).  *)
(* All datetimes and times of day are taken in one timezone.               *)
(*                                                                         *)
(* The solver is modelled by what CP-SAT guarantees: solve returns an      *)
(* assignment that satisfies every constraint of the model, any one of     *)
(* them (the search may stop at the time limit), or reports that there is  *)
(* none.  Of the assignment the model keeps what the code or a rule can    *)
(* observe: presence of every event, start and stop of present events,    *)
(* the stop of an absent event another event must come after, and the     *)
(* `by` indicator literals of present events.                              *)
(*                                                                         *)
(* A Schedule is populated once: its ConstraintModel is single-use and     *)
(* every caller builds a fresh Schedule for each populate.                 *)
(*                                                                         *)
(* Spec calls populate with a span and at most one pre-existing tag,       *)
(* PinSpec with pre-existing timespans, PickSpec with a no_pick_first map, *)
(* ChoreSpec is a ChoreSchedule (src/hermes/chores.py) populated from a    *)
(* chore store.                                                            *)
(***************************************************************************)
EXTENDS Integers, Sequences, FiniteSets, TLC

\* ---------------------------------------------------------------- bounds
TPS == 2
DaySecs == 4
NDays == 2
MaxNotWithin == 1

DayLen == DaySecs * TPS

\* make_var's default upper_bound (cp_model.INT32_MAX * 32), scaled to the
\* model's horizon; the lower bound is 0.
UpperBound == NDays * DaySecs

\* Schedule.DEFAULT_DURATION, in ticks
DEFAULT_DURATION == 4
\* DailySchedule.day_start / day_end, times of day in ticks
day_start == 2
day_end == 7

\* Optional values: None is the empty tuple, a value v is <<v>>.
None == <<>>

Names == {"a", "b", "x"}
\* names the caller declares with add_event; "x" only occurs on tags
DeclNames == {"a", "b"}

Min2(p, q) == IF p <= q THEN p ELSE q
Max2(p, q) == IF p >= q THEN p ELSE q

\* ------------------------------------------------------------ conversions
\* int(datetime.timestamp()): the whole seconds of an instant
ToTimestamp(t) == t \div TPS
\* datetime.fromtimestamp(v, utc) of a solver value
FromTimestamp(v) == v * TPS
\* int(timedelta.total_seconds())
TotalSeconds(d) == d \div TPS

\* Span.dates_between: the calendar days d (numbered from the epoch) from
\* the day of begins_at on, while midnight of d is before finish_at.
RECURSIVE DatesFrom(_, _)
DatesFrom(day, finish_at) ==
    IF day * DayLen < finish_at
    THEN <<day>> \o DatesFrom(day + 1, finish_at)
    ELSE <<>>

dates_between(span) == DatesFrom(span[1] \div DayLen, span[2])

\* datetime.combine(day, time_of_day)
Combine(day, tod) == day * DayLen + tod

\* Schedule.event_windows / DailySchedule.event_windows
event_windows(knd, overall) ==
    IF knd # "DailySchedule"
    THEN << overall >>
    ELSE LET days == dates_between(overall)
         IN [i \in 1..Len(days) |->
                << Max2(Combine(days[i], day_start), overall[1]),
                   Min2(Combine(days[i], day_end), overall[2]) >>]

\* ------------------------------------------------------------------ state
VARIABLES
    kind,       \* the Schedule class: "Schedule", "DailySchedule" or
                \* "ChoreSchedule"
    events,     \* Schedule.events: name -> Event (reg = FALSE: no such key)
    cons,       \* the constraints added to ConstraintModel._model
    objective,  \* the events of the last maximize call
    nrules,     \* number of not_within calls made
    populated,  \* populate has been called
    ret,        \* how the last call ended: "ok" or the ValueError raised
    result,     \* outcome of the last populate call
    call        \* the call under way outside a Schedule (spans, tags,
                \* categories, frequencies, the calendar queue, the cli
                \* loop): its inputs, its position and what it produced

schedVars == <<kind, events, cons, objective, nrules, populated, ret, result>>

vars == <<kind, events, cons, objective, nrules, populated, ret, result,
          call>>

\* An Event: the size of its interval variable and its rule attributes.
NoEvent ==
    [reg |-> FALSE, duration |-> 0, interval |-> 0, optional |-> FALSE,
     between |-> None, by |-> None, after |-> {}, not_within |-> {},
     pinned |-> FALSE, dont_schedule |-> FALSE, tag |-> None,
     chore |-> None]

\* A constraint of the model.  kind says which of the fields are used.
Con(k, ev, other, n, opts, evs) ==
    [kind |-> k, ev |-> ev, other |-> other, n |-> n, opts |-> opts,
     evs |-> evs]

\* no call outside the Schedule is under way
NoCall == [op |-> "none"]

NoResult ==
    [status |-> "none", tags |-> {}, sol |-> <<>>, byTrue |-> <<>>,
     span |-> <<0, 0>>, pre |-> <<>>, npf |-> {}]

Init ==
    /\ kind \in {"Schedule", "DailySchedule"}
    /\ events = [n \in Names |-> NoEvent]
    /\ cons = {}
    /\ objective = {}
    /\ nrules = 0
    /\ populated = FALSE
    /\ ret = "init"
    /\ result = NoResult
    /\ call = NoCall

Registered(evs) == {n \in Names : evs[n].reg}

\* The ValueErrors the code raises, by their message.
ErrDuplicate == "Already have a defined event"
ErrByBetween == "Cannot specify both by and between"
ErrAfter == "Somehow, this event does not exist yet."
ErrNoPickFirst == "In order to not pick something first"
ErrNonFeasible == "Non-feasible scheduling problem status"

\* ------------------------------------------------------ Schedule.add_event
\* (mutant) the size is rounded up past the duration
make_interval_up(duration) == TotalSeconds(duration) + 1

\* ConstraintModel.make_interval: the size of the optional interval
make_interval(duration) == TotalSeconds(duration)

NewEvent(duration, optional) ==
    [NoEvent EXCEPT !.reg = TRUE,
                    !.duration = duration,
                    !.interval = make_interval(duration),
                    !.optional = optional]

\* (mutant) presence is never forced
AddEventCons_none(name, optional) == {}

\* line 191-192: a mandatory event has its presence literal forced to 1
AddEventCons(name, optional) ==
    IF optional THEN {} ELSE {Con("present", name, "", 0, <<>>, {})}

AddEventByBetweenError(between_, by_) == by_ # None /\ between_ # None

AddEventAfterError(evs, name, after_) ==
    after_ # None /\ after_[1] \notin (Registered(evs) \cup {name})

\* (mutant) a name that is already registered is registered anew
add_event_overwrite(evs, cs, name, dur, optional, between_, after_, by_) ==
    LET duration == IF dur = None THEN DEFAULT_DURATION ELSE dur[1]
        e0 == NewEvent(duration, optional)
        e1 == IF between_ # None THEN [e0 EXCEPT !.between = between_] ELSE e0
        byErr == AddEventByBetweenError(between_, by_)
        e2 == IF by_ # None /\ ~byErr THEN [e1 EXCEPT !.by = by_] ELSE e1
        afterErr == ~byErr /\ AddEventAfterError(evs, name, after_)
        e3 == IF after_ # None /\ ~byErr /\ ~afterErr
              THEN [e2 EXCEPT !.after = {after_[1]}] ELSE e2
    IN [events |-> [evs EXCEPT ![name] = e3],
        cons |-> cs \cup AddEventCons(name, optional),
        raised |-> byErr \/ afterErr,
        error |-> IF byErr THEN ErrByBetween ELSE ErrAfter]

\* The registry, the constraints and the outcome add_event leaves behind.
\* A duplicate name raises before anything is touched.  Otherwise the event
\* is stored (line 206) before between / by / after are examined, so a
\* ValueError raised by those leaves it registered with the rules set up to
\* that point.
add_event(evs, cs, name, dur, optional, between_, after_, by_) ==
    IF evs[name].reg
    THEN [events |-> evs, cons |-> cs, raised |-> TRUE,
          error |-> ErrDuplicate]
    ELSE
    LET duration == IF dur = None THEN DEFAULT_DURATION ELSE dur[1]
        e0 == NewEvent(duration, optional)
        e1 == IF between_ # None THEN [e0 EXCEPT !.between = between_] ELSE e0
        byErr == AddEventByBetweenError(between_, by_)
        e2 == IF by_ # None /\ ~byErr THEN [e1 EXCEPT !.by = by_] ELSE e1
        afterErr == ~byErr /\ AddEventAfterError(evs, name, after_)
        e3 == IF after_ # None /\ ~byErr /\ ~afterErr
              THEN [e2 EXCEPT !.after = {after_[1]}] ELSE e2
    IN [events |-> [evs EXCEPT ![name] = e3],
        cons |-> cs \cup AddEventCons(name, optional),
        raised |-> byErr \/ afterErr,
        error |-> IF byErr THEN ErrByBetween ELSE ErrAfter]

\* inputs of add_event
Durations == {None, <<3>>}
Betweens == {None, <<1, 7>>}
Bys == {None, <<5>>}

\* a call add_event(name, ...)
AddEventOf(name) ==
    /\ ~populated
    /\ \E dur \in Durations, optional \in BOOLEAN,
          between_ \in Betweens, by_ \in Bys,
          after_ \in {None} \cup {<<n>> : n \in DeclNames} :
        /\ after_ # <<name>>
        /\ \E r \in {add_event(events, cons, name, dur, optional, between_,
                               after_, by_)} :
            /\ events' = r.events
            /\ cons' = r.cons
            /\ ret' = IF r.raised THEN r.error ELSE "ok"
    /\ UNCHANGED <<kind, objective, nrules, populated, result, call>>

AddEvent == \E name \in DeclNames : AddEventOf(name)

\* ----------------------------------------------------- Schedule.not_within
Gaps == {3}

NotWithin ==
    /\ ~populated
    /\ nrules < MaxNotWithin
    /\ \E a \in Registered(events), b \in Registered(events), gap \in Gaps :
        /\ a # b
        /\ events' = [events EXCEPT ![a].not_within = @ \cup {<<b, gap>>}]
        /\ ret' = "ok"
    /\ nrules' = nrules + 1
    /\ UNCHANGED <<kind, cons, objective, populated, result, call>>

\* ------------------------------------------------------- Event.pin_to_tag
\* Only the first pin of an event adds a constraint, on the start alone.
pin_to_tag(st, name, tag) ==
    IF st.events[name].pinned
    THEN st
    ELSE [events |-> [st.events EXCEPT ![name].pinned = TRUE],
          cons |-> st.cons \cup
              {Con("pin", name, "", ToTimestamp(tag.valid_from), <<>>, {})}]

\* populate, lines 251-263: every pre-existing tag pins the event of its
\* name; an unknown name first becomes a mandatory event of the tag's
\* duration that is kept out of the result.
PinOne(st, tag) ==
    IF st.events[tag.name].reg
    THEN pin_to_tag(st, tag.name, tag)
    ELSE LET r == add_event(st.events, st.cons, tag.name,
                            <<tag.valid_to - tag.valid_from>>, FALSE,
                            None, None, None)
             st1 == [events |-> [r.events EXCEPT
                                   ![tag.name].dont_schedule = TRUE],
                     cons |-> r.cons]
         IN pin_to_tag(st1, tag.name, tag)

RECURSIVE PinTags(_, _, _)
PinTags(st, pre, i) ==
    IF i > Len(pre) THEN st ELSE PinTags(PinOne(st, pre[i]), pre, i + 1)

\* ------------------------------------------------ the constraint builders
\* Each returns the constraints the builder adds for event e.  A builder
\* that collects indicator literals adds its sum constraint only when it
\* collected at least one.
no_pick_first(evs, e, cutoff) ==
    LET others == Registered(evs) \ {e}
    IN IF others = {} THEN {}
       ELSE {Con("npf", e, "", ToTimestamp(cutoff), <<>>, others)}

choose_window(e, windows) ==
    IF Len(windows) = 0 THEN {}
    ELSE {Con("window", e, "", 0,
              [i \in 1..Len(windows) |->
                  <<ToTimestamp(windows[i][1]), ToTimestamp(windows[i][2])>>],
              {})}

\* (mutant) the gap is read from the days of the timedelta
not_within_days(evs, e) ==
    {Con("not_within", e, r[1], 0, <<>>, {}) : r \in evs[e].not_within}

not_within(evs, e) ==
    {Con("not_within", e, r[1], TotalSeconds(r[2]), <<>>, {}) :
        r \in evs[e].not_within}

\* (mutant) the deadline of day i is taken on the day after
by_next_day(evs, e, span) ==
    LET days == dates_between(span)
    IN IF evs[e].by = None \/ Len(days) = 0 THEN {}
       ELSE {Con("by", e, "", 0,
                 [i \in 1..Len(days) |->
                     <<ToTimestamp(Combine(days[i] + 1, evs[e].by[1]))>>],
                 {})}

by(evs, e, span) ==
    LET days == dates_between(span)
    IN IF evs[e].by = None \/ Len(days) = 0 THEN {}
       ELSE {Con("by", e, "", 0,
                 [i \in 1..Len(days) |->
                     <<ToTimestamp(Combine(days[i], evs[e].by[1]))>>],
                 {})}

between(evs, e, span) ==
    LET days == dates_between(span)
    IN IF evs[e].between = None \/ Len(days) = 0 THEN {}
       ELSE {Con("between", e, "", 0,
                 [i \in 1..Len(days) |->
                     <<ToTimestamp(Combine(days[i], evs[e].between[1])),
                       ToTimestamp(Combine(days[i], evs[e].between[2]))>>],
                 {})}

\* (mutant) the operands of the comparison are swapped
after_swapped(evs, e) ==
    {Con("after", o, e, 0, <<>>, {}) : o \in evs[e].after}

after(evs, e) ==
    {Con("after", e, o, 0, <<>>, {}) : o \in evs[e].after}

\* Schedule.constrain
constrain(knd, evs, e, span, npf) ==
    (IF \E p \in npf : p[1] = e
     THEN no_pick_first(evs, e, (CHOOSE p \in npf : p[1] = e)[2])
     ELSE {})
    \cup choose_window(e, event_windows(knd, span))
    \cup not_within(evs, e)
    \cup by(evs, e, span)
    \cup between(evs, e, span)
    \cup after(evs, e)

\* (mutant) the no-overlap constraint is given no interval
add_no_overlap_none(es) == {Con("no_overlap", "", "", 0, <<>>, {})}

\* ConstraintModel.add_no_overlap over the intervals of the given events
add_no_overlap(es) == {Con("no_overlap", "", "", 0, <<>>, es)}

\* ---------------------------------------------------- ConstraintModel.solve
\* The values of one event's variables.
Val(p, s, t) == [present |-> p, start |-> s, stop |-> t]

\* marks a variable whose value is not kept
NoValue == UpperBound + 1

\* The start (stop) of e occurs in a constraint that another event
\* enforces and whose value is looked at.  The variables of an absent event
\* are free: every constraint on them that the event itself adds is
\* enforced only if it is present.  The constraints of other events bound
\* the start of e from below and its stop from above only (no_pick_first:
\* self.start > e.stop, e.start >= pick_after), so where nothing reads the
\* value the largest start and the smallest stop stand for all of them.
StartReferenced(C, e) ==
    \E c \in C : c.kind = "not_within" /\ c.other = e

StopReferenced(C, e) ==
    \E c \in C : c.kind \in {"after", "not_within"} /\ c.other = e

\* --------------------------------------------------- ChoreEvent.score
\* Frequency.tension_solver: SCALAR_MAX
SCALAR_MAX == 3

\* Frequency.tension_solver: the scalar for a chore of frequency
\* <<mean, tolerance>> (whole seconds) after `elapsed` seconds, where
\* abs(elapsed - mean) == (SCALAR_MAX - scalar) * tolerance + remainder and
\* 0 <= remainder < tolerance.
tension_solver(freq, elapsed) ==
    SCALAR_MAX - ((elapsed - freq[1]) \div freq[2])

\* ChoreEvent.score of a present chore: the tension scalar of the time from
\* `updated` to its start, plus the seconds it lasts
\* (EventScoredForSeconds.score).  ch is <<mean, tolerance, updated>>.
ChoreScore(ch, v) ==
    tension_solver(ch, v.start - ch[3]) + (v.stop - v.start)

\* The constraints score() adds bind the start of the chore whether it is
\* present or not: make_var gives every auxiliary variable the lower bound
\* 0 (elapsed, tension_diff, tension_remainder < tolerance, and the score
\* itself), and base_score is tied to stop - start only if the chore is
\* present.  The upper bound of these variables is far above any
\* difference of instants and is not reached.
ChoreScoreHolds(ch, v) ==
    /\ v.start - ch[3] >= 0
    /\ v.start - ch[3] - ch[1] >= 0
    /\ ch[2] >= 1
    /\ v.present => ChoreScore(ch, v) >= 0

\* One constraint on the variables of its own event alone.  A constraint
\* added with sentinel=is_present binds only a present event; a sum over
\* indicator literals is satisfied by choosing the literals, each of which
\* enforces its own bounds when true.
HoldsUnary(c, v) ==
    CASE c.kind = "present" -> v.present
      [] c.kind = "pin" -> v.present => v.start = c.n
      [] c.kind = "window" ->
            v.present => \E i \in 1..Len(c.opts) :
                            v.start >= c.opts[i][1] /\ v.stop <= c.opts[i][2]
      [] c.kind = "between" ->
            v.present => \E i \in 1..Len(c.opts) :
                            v.start > c.opts[i][1] /\ v.stop < c.opts[i][2]
      [] c.kind = "by" ->
            v.present => \E i \in 1..Len(c.opts) : v.stop < c.opts[i][1]
      [] c.kind = "chore" -> ChoreScoreHolds(c.opts, v)
      [] OTHER -> TRUE

\* One constraint that relates two events (AddMinEquality / AddMaxEquality
\* define first_stop and last_start; AddNoOverlap looks at present
\* intervals only and counts intervals of size zero).
HoldsBinary(c, asg) ==
    CASE c.kind = "after" ->
            asg[c.ev].present => asg[c.ev].start > asg[c.other].stop
      [] c.kind = "not_within" ->
            asg[c.ev].present =>
                Max2(asg[c.ev].start, asg[c.other].start)
                  - Min2(asg[c.ev].stop, asg[c.other].stop) >= c.n
      [] c.kind = "npf" ->
            asg[c.ev].present =>
                \E o \in c.evs : /\ asg[c.ev].start > asg[o].stop
                                 /\ asg[o].start >= c.n
      [] c.kind = "no_overlap" ->
            \A p \in c.evs, q \in c.evs :
                (p # q /\ asg[p].present /\ asg[q].present) =>
                    \/ asg[p].stop <= asg[q].start
                    \/ asg[q].stop <= asg[p].start
      [] OTHER -> TRUE

\* The values event e can take: make_var bounds every variable to
\* 0..UpperBound, and the optional interval of make_interval ties
\* stop = start + size when the event is present.
Cand(evs, C, e) ==
    IF ~evs[e].reg THEN {Val(FALSE, 0, 0)}
    ELSE LET present == {Val(TRUE, s, s + evs[e].interval) :
                            s \in 0..(UpperBound - evs[e].interval)}
             absent == {Val(FALSE, s, t) :
                          s \in IF StartReferenced(C, e)
                                THEN 0..UpperBound ELSE {UpperBound},
                          t \in IF StopReferenced(C, e)
                                THEN 0..UpperBound ELSE {0}}
             own == {c \in C : c.ev = e}
         IN UNION {{v \in present \cup absent :
                       \A c \in cs : HoldsUnary(c, v)} : cs \in {own}}

\* CpSolver: every assignment that satisfies the model.
Solutions(evs, C) ==
    LET binary == {c \in C : c.kind \in
                      {"after", "not_within", "npf", "no_overlap"}}
    IN UNION {{asg \in {[a |-> va, b |-> vb, x |-> vx] :
                           va \in Cand(evs, C, "a"),
                           vb \in Cand(evs, C, "b"),
                           vx \in Cand(evs, C, "x")} :
                  \A c \in bin : HoldsBinary(c, asg)} : bin \in {binary}}

\* (mutant) the status is not looked at; without a solution every variable
\* reads as 0
solve_unchecked(sols) ==
    [raised |-> FALSE,
     sols |-> IF sols = {}
              THEN {[e \in Names |-> [present |-> FALSE, start |-> 0,
                                      stop |-> 0]]}
              ELSE sols]

\* ConstraintModel.solve: raises ValueError unless the solver's status is
\* FEASIBLE or OPTIMAL, that is unless it holds an assignment.
solve(sols) == [raised |-> sols = {}, sols |-> sols]

\* (mutant) the objective is minimized
Score_minimize(obj, asg) == 0 - Cardinality({e \in obj : asg[e].present})

\* The objective of maximize with the default Event.score: the final score
\* of an event is its presence literal, 0 when it is absent.
Score(obj, asg) == Cardinality({e \in obj : asg[e].present})

\* The best objective value of a non-empty set of assignments.
Best(obj, sols) ==
    LET scores == {Score(obj, o) : o \in sols}
    IN CHOOSE n \in scores : \A m \in scores : m <= n

\* The status solve accepts: OPTIMAL can only be reported for an assignment
\* of maximal objective value, any other one is FEASIBLE (found before the
\* time limit).  populate treats the two alike.
Status(obj, best, asg) ==
    IF Score(obj, asg) = best THEN "OPTIMAL" ELSE "FEASIBLE"

\* What is kept of an assignment.
Kept(evs, C, asg) ==
    [e \in Names |->
        IF asg[e].present THEN asg[e]
        ELSE Val(FALSE, NoValue,
                 IF evs[e].reg /\ \E c \in C : c.kind = "after" /\ c.other = e
                 THEN asg[e].stop ELSE NoValue)]

\* The `by` indicator literals that can be true for event e:
\* exactly one when e is present, and that one enforces its deadline.
ByChoices(C, e, v) ==
    IF v.present /\ \E c \in C : c.kind = "by" /\ c.ev = e
    THEN LET c == CHOOSE c \in C : c.kind = "by" /\ c.ev = e
         IN {{i} : i \in {j \in 1..Len(c.opts) : v.stop < c.opts[j][1]}}
    ELSE {{}}

\* ------------------------------------------------- Schedule.make_timespan
\* (mutant) events made from pre-existing tags are returned as well
make_timespan_all(evs, asg) ==
    {[name |-> e, valid_from |-> FromTimestamp(asg[e].start),
      valid_to |-> FromTimestamp(asg[e].stop)] :
        e \in {n \in Registered(evs) : asg[n].present}}

make_timespan(evs, asg) ==
    {[name |-> e, valid_from |-> FromTimestamp(asg[e].start),
      valid_to |-> FromTimestamp(asg[e].stop)] :
        e \in {n \in Registered(evs) :
                  ~evs[n].dont_schedule /\ asg[n].present}}

SetTags(evs, tags) ==
    [e \in Names |->
        IF \E t \in tags : t.name = e
        THEN LET t == CHOOSE t \in tags : t.name = e
             IN [evs[e] EXCEPT !.tag = <<t.valid_from, t.valid_to>>]
        ELSE evs[e]]

\* ------------------------------------------------------ Schedule.populate
Tag(n, f, t) == [name |-> n, valid_from |-> f, valid_to |-> t]

\* inputs of populate
Spans == {<<0, DayLen - 1>>, <<1, 2 * DayLen>>, <<DayLen, DayLen>>}
PreInputs == {<<>>, <<Tag("a", 4, 6)>>}
NpfInputs == {{}}

\* The constraints populate adds once the tags are
\* pinned: constrain for every event, then one no-overlap over all events.
PopulateCons(knd, evs, span, npf) ==
    UNION {constrain(knd, evs, e, span, npf) : e \in Registered(evs)}
    \cup add_no_overlap(Registered(evs))

PopulateWith(spans, pres, npfs) ==
    /\ ~populated
    /\ \E span \in spans, pre \in pres, npf \in npfs :
        LET res == [NoResult EXCEPT !.span = span, !.pre = pre, !.npf = npf]
        IN
        IF Registered(events) \subseteq {p[1] : p \in npf}
        THEN /\ result' = [res EXCEPT !.status = "ValueError"]
             /\ ret' = ErrNoPickFirst
             /\ UNCHANGED <<events, cons, objective>>
        ELSE
          \E st \in {PinTags([events |-> events, cons |-> cons], pre, 1)} :
          \E C \in {st.cons
                    \cup PopulateCons(kind, st.events, span, npf)} :
          \E solver \in {solve({Kept(st.events, C, asg) :
                                   asg \in Solutions(st.events, C)})} :
          \E sols \in {solver.sols} :
             /\ cons' = C
             /\ objective' = Registered(st.events)
             /\ IF solver.raised
                THEN /\ events' = st.events
                     /\ result' = [res EXCEPT !.status = "ValueError"]
                     /\ ret' = ErrNonFeasible
                ELSE \E best \in {Best(Registered(st.events), sols)} :
                     \E asg \in sols :
                     \E ba \in ByChoices(C, "a", asg["a"]),
                        bb \in ByChoices(C, "b", asg["b"]),
                        bx \in ByChoices(C, "x", asg["x"]),
                        tags \in {make_timespan(st.events, asg)} :
                       /\ events' = SetTags(st.events, tags)
                       /\ result' = [res EXCEPT
                              !.status = Status(Registered(st.events),
                                                best, asg),
                              !.tags = tags,
                              !.sol = asg,
                              !.byTrue = [a |-> ba, b |-> bb, x |-> bx]]
                       /\ ret' = "ok"
    /\ populated' = TRUE
    /\ UNCHANGED <<kind, nrules, call>>

Populate == PopulateWith(Spans, PreInputs, NpfInputs)

Next == AddEvent \/ NotWithin \/ Populate

Spec == Init /\ [][Next]_vars

\* ------------------------------------- populate with pre-existing timespans
\* pre_existing_timespans, as the sequence of tags iter_tags yields: a tag
\* of a name the caller may have declared, two tags of one new name, two
\* overlapping tags of different names
PinInputs ==
    {<<Tag("a", 4, 6)>>,
     <<Tag("x", 0, 2), Tag("x", 4, 8)>>,
     <<Tag("x", 4, 8), Tag("b", 4, 6)>>}

PopulatePinned == PopulateWith(Spans, PinInputs, NpfInputs)

PinNext == AddEvent \/ NotWithin \/ PopulatePinned

PinSpec == Init /\ [][PinNext]_vars

\* ------------------------------------------- populate with no_pick_first
\* no_pick_first maps, as sets of <<name, cutoff>>
PickInputs == {{<<"a", 2>>}, {<<"b", 0>>}}

PopulateNoPickFirst == PopulateWith(Spans, {<<>>}, PickInputs)

PickNext == AddEvent \/ NotWithin \/ PopulateNoPickFirst

PickSpec == Init /\ [][PickNext]_vars

\* -------------------------------------------------------- ChoreSchedule
\* A row of the chore store: duration, mean and tolerance are timedeltas
\* (ticks), updated is the whole second of the chore's last instance,
\* counted from the model's origin (fromtimestamp(int(row[6]))).
ChoreRow(n, d, m, t, mn, u) ==
    [name |-> n, duration |-> d, mean |-> m, tolerance |-> t, min |-> mn,
     updated |-> u]

ChoreRows ==
    {ChoreRow(n, 4, 2, t, 0, u) :
        n \in DeclNames, t \in {2, 4}, u \in {0 - 6, 0, 3}}

\* the chore stores populate is called with
ChoreStores ==
    {<<>>} \cup {<<r>> : r \in ChoreRows}
    \cup {<<r, q>> : r \in {c \in ChoreRows : c.name = "a"},
                     q \in {c \in ChoreRows : c.name = "b"}}
    \cup {<<r, r>> : r \in {c \in ChoreRows : c.name = "a"}}

ChoreSpans == {<<2 * TPS, 4 * TPS>>, <<4 * TPS, 6 * TPS>>, <<4 * TPS, 8 * TPS>>}

\* ChoreStore.applicable_chores: the rows whose chore is due before the
\* span ends
RECURSIVE applicable_chores(_, _)
applicable_chores(store, span) ==
    IF store = <<>> THEN <<>>
    ELSE LET row == Head(store)
         IN (IF FromTimestamp(row.updated) + row.min <= span[2]
             THEN <<row>> ELSE <<>>)
            \o applicable_chores(Tail(store), span)

\* ChoreSchedule.add_chore: an optional event of class ChoreEvent
add_chore(st, row) ==
    LET r == add_event(st.events, st.cons, row.name, <<row.duration>>, TRUE,
                       None, None, None)
    IN [events |-> IF r.raised THEN r.events
                   ELSE [r.events EXCEPT ![row.name].chore =
                            << <<TotalSeconds(row.mean),
                                 TotalSeconds(row.tolerance),
                                 row.updated>> >>],
        cons |-> r.cons,
        raised |-> st.raised \/ r.raised]

RECURSIVE AddChores(_, _)
AddChores(st, rows) ==
    IF rows = <<>> \/ st.raised THEN st
    ELSE AddChores(add_chore(st, Head(rows)), Tail(rows))

\* The constraints ChoreEvent.score adds when maximize tabulates the
\* events.
ScoreCons(evs) ==
    {Con("chore", e, "", 0, evs[e].chore[1], {}) :
        e \in {n \in Registered(evs) : evs[n].chore # None}}

\* The objective of maximize over ChoreEvents: the final score of a chore
\* is its score when it is present and 0 when it is absent.
ChoreObjective(evs, asg) ==
    LET RECURSIVE Sum(_)
        Sum(S) == IF S = {} THEN 0
                  ELSE LET e == CHOOSE e \in S : TRUE
                       IN (IF asg[e].present
                           THEN ChoreScore(evs[e].chore[1], asg[e]) ELSE 0)
                          + Sum(S \ {e})
    IN Sum({n \in Registered(evs) : evs[n].chore # None})

\* ChoreSchedule.populate: add the applicable chores of the store, then
\* Schedule.populate.
ChorePopulate ==
    /\ ~populated
    /\ \E span \in ChoreSpans, store \in ChoreStores :
        LET res == [NoResult EXCEPT !.span = span]
        IN
        \E st \in {AddChores([events |-> events, cons |-> cons,
                               raised |-> FALSE],
                              applicable_chores(store, span))} :
          IF st.raised
          THEN /\ events' = st.events
               /\ cons' = st.cons
               /\ objective' = objective
               /\ result' = [res EXCEPT !.status = "ValueError"]
               /\ ret' = ErrDuplicate
          ELSE IF Registered(st.events) = {}
          THEN /\ events' = st.events
               /\ cons' = st.cons
               /\ objective' = objective
               /\ result' = [res EXCEPT !.status = "ValueError"]
               /\ ret' = ErrNoPickFirst
          ELSE
            \E C \in {st.cons \cup PopulateCons(kind, st.events, span, {})
                       \cup ScoreCons(st.events)} :
            \E solver \in {solve({Kept(st.events, C, asg) :
                                     asg \in Solutions(st.events, C)})} :
            \E sols \in {solver.sols} :
               /\ cons' = C
               /\ objective' = Registered(st.events)
               /\ IF solver.raised
                  THEN /\ events' = st.events
                       /\ result' = [res EXCEPT !.status = "ValueError"]
                       /\ ret' = ErrNonFeasible
                  ELSE \E best \in {CHOOSE n \in
                                       {ChoreObjective(st.events, o) :
                                           o \in sols} :
                                       \A o \in sols :
                                         ChoreObjective(st.events, o) <= n} :
                       \E asg \in sols :
                       \E tags \in {make_timespan(st.events, asg)} :
                         /\ events' = SetTags(st.events, tags)
                         /\ result' = [res EXCEPT
                                !.status =
                                    IF ChoreObjective(st.events, asg) = best
                                    THEN "OPTIMAL" ELSE "FEASIBLE",
                                !.tags = tags,
                                !.sol = asg,
                                !.byTrue = [e \in Names |-> {}]]
                         /\ ret' = "ok"
    /\ populated' = TRUE
    /\ UNCHANGED <<kind, nrules, call>>

ChoreInit ==
    /\ kind = "ChoreSchedule"
    /\ events = [n \in Names |-> NoEvent]
    /\ cons = {}
    /\ objective = {}
    /\ nrules = 0
    /\ populated = FALSE
    /\ ret = "init"
    /\ result = NoResult
    /\ call = NoCall

ChoreNext == ChorePopulate

ChoreSpec == ChoreInit /\ [][ChoreNext]_vars


\* ============================================ calls outside a Schedule
\* The Schedule of a specification that makes no Schedule call: freshly
\* constructed and left alone.
LibInit(k) ==
    /\ kind = k
    /\ events = [n \in Names |-> NoEvent]
    /\ cons = {}
    /\ objective = {}
    /\ nrules = 0
    /\ populated = FALSE
    /\ ret = "init"
    /\ result = NoResult

\* ------------------------------------------- DailySchedule.event_windows
\* the overall spans handed to event_windows: every span of the horizon
\* with begins_at <= finish_at, in ticks
WindowSpans ==
    {s \in (0..(UpperBound * TPS)) \X (0..(UpperBound * TPS)) :
        s[1] <= s[2]}

WindowInit ==
    /\ LibInit("DailySchedule")
    /\ \E overall \in WindowSpans :
         call = [op |-> "event_windows", overall |-> overall,
                 done |-> FALSE, windows |-> <<>>]

\* list(schedule.event_windows(overall))
EventWindows ==
    /\ call.op = "event_windows"
    /\ ~call.done
    /\ call' = [call EXCEPT !.done = TRUE,
                            !.windows = event_windows(kind, call.overall)]
    /\ UNCHANGED schedVars

WindowNext == EventWindows

WindowSpec == WindowInit /\ [][WindowNext]_vars


\* ------------------------------------------------------------------ Span
\* Instants of the span, tag and calendar calls are ticks 0..MaxT; an
\* optional instant is None or <<t>>.
MaxT == 3
Instants == 0..MaxT
OptInstants == {None} \cup {<<t>> : t \in Instants}

\* datetime.min and datetime.max, which stand for a missing bound
DT_MIN == -1
DT_MAX == MaxT + 1

\* Span(begins_at, finish_at)
Span(b, f) == [begins_at |-> b, finish_at |-> f]

\* span.begins_at or datetime.min, span.finish_at or datetime.max
BeginsOrMin(span) ==
    IF span.begins_at = None THEN DT_MIN ELSE span.begins_at[1]
FinishOrMax(span) ==
    IF span.finish_at = None THEN DT_MAX ELSE span.finish_at[1]

\* Spannable.__contains__(self, other), the value of `other in self`
contains(self, other) ==
    LET self_begins == BeginsOrMin(self)
        other_begins == BeginsOrMin(other)
        self_finish == FinishOrMax(self)
        other_finish == FinishOrMax(other)
    IN IF other_begins < self_begins
       THEN other_finish >= self_begins
       ELSE IF other_finish > self_finish
            THEN other_begins <= self_finish
            ELSE TRUE

\* the spans of the calls: any two optional bounds, the first not after
\* the second
SpanInputs ==
    {s \in [begins_at : OptInstants, finish_at : OptInstants] :
        \/ s.begins_at = None
        \/ s.finish_at = None
        \/ s.begins_at[1] <= s.finish_at[1]}

SpanInit ==
    /\ LibInit("Schedule")
    /\ \E a \in SpanInputs, b \in SpanInputs :
         call = [op |-> "in", a |-> a, b |-> b, done |-> FALSE,
                 a_in_b |-> FALSE, b_in_a |-> FALSE]

\* the two tests `a in b` and `b in a`
SpanIn ==
    /\ call.op = "in"
    /\ ~call.done
    /\ call' = [call EXCEPT !.done = TRUE,
                            !.a_in_b = contains(call.b, call.a),
                            !.b_in_a = contains(call.a, call.b)]
    /\ UNCHANGED schedVars

SpanNext == SpanIn

SpanSpec == SpanInit /\ [][SpanNext]_vars


\* ---------------------------------------------------------- Span.subspans
\* finite spans over twice the range of instants, so that a span takes
\* several pieces, and durations in ticks, zero included
SubInstants == 0..(2 * MaxT)
SubSpans ==
    {s \in [begins_at : {<<t>> : t \in SubInstants},
            finish_at : {<<t>> : t \in SubInstants}] :
        s.begins_at[1] <= s.finish_at[1]}
SubDurations == 0..MaxT
\* no more pieces than this are drawn from the generator
MaxPieces == 2 * MaxT + 1

\* finish = min(start + duration, final_finish), without the min
subspan_finish_unclipped(start, duration, final_finish) == start + duration

\* finish = min(start + duration, final_finish)
subspan_finish(start, duration, final_finish) ==
    Min2(start + duration, final_finish)

\* span.subspans(duration) is called: the generator stands before its loop
SubInit ==
    /\ LibInit("Schedule")
    /\ \E span \in SubSpans, duration \in SubDurations :
         call = [op |-> "subspans", span |-> span, duration |-> duration,
                 start |-> BeginsOrMin(span), pieces |-> <<>>,
                 done |-> FALSE]

\* one turn of `while start < final_finish`: a piece is yielded
SubspansYield ==
    /\ call.op = "subspans"
    /\ ~call.done
    /\ Len(call.pieces) < MaxPieces
    /\ call.start < FinishOrMax(call.span)
    /\ LET finish == subspan_finish(call.start, call.duration,
                                    FinishOrMax(call.span))
       IN call' = [call EXCEPT
                      !.pieces = Append(@, Span(<<call.start>>, <<finish>>)),
                      !.start = finish]
    /\ UNCHANGED schedVars

\* the loop condition fails: the generator is exhausted
SubspansReturn ==
    /\ call.op = "subspans"
    /\ ~call.done
    /\ ~(call.start < FinishOrMax(call.span))
    /\ call' = [call EXCEPT !.done = TRUE]
    /\ UNCHANGED schedVars

SubNext == SubspansYield \/ SubspansReturn

SubSpec == SubInit /\ [][SubNext]_vars


\* --------------------------------------------------------------- Category
\* Names are sequences of characters, one or two of each kind the pattern
\* tells apart: letters, a digit, the colon, the hyphen, the space, the
\* underscore, another punctuation mark and the newline.
MaxNameLen == 3
Letters == {"a", "Z"}
Digits == {"0"}
Chars == Letters \cup Digits \cup {":", "-", " ", "_", "!", "\n"}

RECURSIVE SeqsUpTo(_, _)
SeqsUpTo(S, n) ==
    IF n = 0 THEN {<<>>}
    ELSE LET shorter == SeqsUpTo(S, n - 1)
         IN shorter \cup {Append(s, c) : s \in shorter, c \in S}

CategoryNames == SeqsUpTo(Chars, MaxNameLen)

\* the class [a-zA-Z0-9:\- ] of the pattern
InClass(c) == c \in Letters \cup Digits \cup {":", "-", " "}

\* `$` after n characters of value: at the end, or before a newline that
\* ends the string
AtDollar(value, n) ==
    \/ n = Len(value)
    \/ n = Len(value) - 1 /\ value[Len(value)] = "\n"

\* re.match(r"[a-zA-Z][a-zA-Z0-9:\- ]*$", value): a letter, then n - 1
\* characters of the class, then `$`
re_match(value) ==
    \E n \in 1..Len(value) :
        /\ value[1] \in Letters
        /\ \A i \in 2..n : InClass(value[i])
        /\ AtDollar(value, n)

\* Category._check_name: TRUE when it raises ValueError
check_name(value) == ~re_match(value)

CategoryInit ==
    /\ LibInit("Schedule")
    /\ \E name \in CategoryNames :
         call = [op |-> "Category", name |-> name, done |-> FALSE,
                 raised |-> FALSE]

\* Category(name, parent)
NewCategory ==
    /\ call.op = "Category"
    /\ ~call.done
    /\ call' = [call EXCEPT !.done = TRUE, !.raised = check_name(call.name)]
    /\ UNCHANGED schedVars

CategoryNext == NewCategory

CategorySpec == CategoryInit /\ [][CategoryNext]_vars


\* ------------------------------------------------ Frequency.tension_solver
\* elapsed is a solver variable fixed to a number of seconds; mean and
\* tolerance are timedeltas of whole seconds, in ticks
MaxElapsed == 7
ElapsedValues == 0..MaxElapsed
Means == {m * TPS : m \in 0..4}
Tolerances == {t * TPS : t \in 1..3}

Abs(n) == IF n >= 0 THEN n ELSE 0 - n

\* The values of tension_scalar in the solutions of the constraints
\* tension_solver adds, for a given value of elapsed.  make_var gives
\* tension_diff, tension_diff_abs and tension_remainder the lower bound 0
\* and tension_scalar the upper bound SCALAR_MAX; the scalar cannot be
\* lower than SCALAR_MAX - |diff| when tolerance >= 1.
tension_scalars(mean_td, tolerance_td, elapsed) ==
    LET mean == TotalSeconds(mean_td)
        tolerance == TotalSeconds(tolerance_td)
        diff == elapsed - mean
        abs_diff == Abs(diff)
    IN IF diff < 0
       THEN {}
       ELSE {scalar \in (SCALAR_MAX - abs_diff - 1)..SCALAR_MAX :
               LET remainder ==
                       abs_diff - (SCALAR_MAX - scalar) * tolerance
               IN remainder >= 0 /\ remainder < tolerance}

TensionInit ==
    /\ LibInit("Schedule")
    /\ \E mean \in Means, tolerance \in Tolerances,
          elapsed \in ElapsedValues :
         call = [op |-> "tension_solver", mean |-> mean,
                 tolerance |-> tolerance, elapsed |-> elapsed,
                 done |-> FALSE, scalars |-> {}]

\* Frequency(mean, tolerance).tension_solver(elapsed, model) and a solve
\* of the model
TensionSolve ==
    /\ call.op = "tension_solver"
    /\ ~call.done
    /\ call' = [call EXCEPT
                   !.done = TRUE,
                   !.scalars = tension_scalars(call.mean, call.tolerance,
                                               call.elapsed)]
    /\ UNCHANGED schedVars

TensionNext == TensionSolve

TensionSpec == TensionInit /\ [][TensionNext]_vars


\* ------------------------------------- TimeSpan.reslice, SqliteTimeSpan
\* A tag with both bounds set: its name and its two instants.
FiniteTag(n, f, t) == [name |-> n, valid_from |-> <<f>>, valid_to |-> <<t>>]

\* Tag.span
TagSpan(t) == Span(t.valid_from, t.valid_to)

\* the tags a timespan may store: valid_from <= valid_to
StoredTags ==
    {FiniteTag("t", s[1], s[2]) :
        s \in {p \in Instants \X Instants : p[1] <= p[2]}}

\* the stores: from one tag to MaxStored tags (TimeSpan.span raises
\* ValueError on a timespan without tags)
MaxStored == 2
Stores ==
    {S \in SUBSET StoredTags : Cardinality(S) \in 1..MaxStored}

\* datetime.isoformat() of an instant in UTC, as the codes of its
\* characters: the seconds field (of fixed width, one code here), then
\* "+00:00" (43 is "+") when there are no microseconds, else "." (46), the
\* microseconds field and "+00:00"
isoformat(t) ==
    <<48 + (t \div TPS)>> \o
    (IF t % TPS = 0 THEN <<43>> ELSE <<46, 48 + (t % TPS), 43>>)

\* datetime.fromisoformat(s)
fromisoformat(s) ==
    (s[1] - 48) * TPS + (IF s[2] = 46 THEN s[3] - 48 ELSE 0)

\* s <= t for two text values of SQLite: byte by byte, a proper prefix
\* first
RECURSIVE TextLeq(_, _)
TextLeq(s, t) ==
    IF s = <<>> THEN TRUE
    ELSE IF t = <<>> THEN FALSE
    ELSE IF Head(s) # Head(t) THEN Head(s) < Head(t)
    ELSE TextLeq(Tail(s), Tail(t))

\* the row insert_tag stores for a tag: NULL (None) or the text of a bound
TagRow(t) ==
    [valid_from |-> IF t.valid_from = None THEN None
                    ELSE <<isoformat(t.valid_from[1])>>,
     valid_to |-> IF t.valid_to = None THEN None
                  ELSE <<isoformat(t.valid_to[1])>>,
     name |-> t.name]

\* SqliteTimeSpan._tag_from_row
tag_from_row(row) ==
    [name |-> row.name,
     valid_from |-> IF row.valid_from = None THEN None
                    ELSE <<fromisoformat(row.valid_from[1])>>,
     valid_to |-> IF row.valid_to = None THEN None
                  ELSE <<fromisoformat(row.valid_to[1])>>]

\* column <= :param and column >= :param of a WHERE clause: not true when
\* the column is NULL
ColLeq(col, param) == col # None /\ TextLeq(col[1], param)
ColGeq(col, param) == col # None /\ TextLeq(param, col[1])

\* the WHERE clause SqliteTimeSpan.reslice builds, for one row
reslice_where(row, begins_at, finish_at) ==
    LET tag_is_infinite == row.valid_to = None /\ row.valid_from = None
    IN IF begins_at = None
       THEN \/ tag_is_infinite
            \/ row.valid_from = None
            \/ ColLeq(row.valid_from, isoformat(finish_at[1]))
       ELSE IF finish_at = None
       THEN \/ tag_is_infinite
            \/ row.valid_to = None
            \/ ColLeq(row.valid_to, isoformat(begins_at[1]))
       ELSE \/ tag_is_infinite
            \/ ColGeq(row.valid_to, isoformat(begins_at[1]))
                 /\ row.valid_from = None
            \/ row.valid_to = None
                 /\ ColLeq(row.valid_from, isoformat(finish_at[1]))
            \/ ColGeq(row.valid_to, isoformat(begins_at[1]))
                 /\ ColLeq(row.valid_from, isoformat(finish_at[1]))

\* SqliteTimeSpan(tags).reslice(begins_at, finish_at): what was raised and
\* the tags of the timespan returned
sqlite_reslice(tags, begins_at, finish_at) ==
    LET rows == {TagRow(t) : t \in tags}
    IN IF begins_at = None /\ finish_at = None
       THEN [raised |-> "", tags |-> {tag_from_row(r) : r \in rows}]
       ELSE [raised |-> "",
             tags |-> {tag_from_row(r) :
                          r \in {q \in rows :
                                    reslice_where(q, begins_at, finish_at)}}]

\* TimeSpan.span: from the least valid_from to the greatest valid_to
timespan_span(tags) ==
    Span(<<CHOOSE f \in {t.valid_from[1] : t \in tags} :
              \A t \in tags : f <= t.valid_from[1]>>,
         <<CHOOSE f \in {t.valid_to[1] : t \in tags} :
              \A t \in tags : f >= t.valid_to[1]>>)

\* TimeSpan(tags).reslice(begins_at, finish_at)
timespan_reslice(tags, begins_at, finish_at) ==
    IF (begins_at = None \/ finish_at = None) /\ tags = {}
    THEN [raised |-> "ValueError", tags |-> {}]
    ELSE LET newspan ==
                 Span(IF begins_at # None THEN begins_at
                      ELSE timespan_span(tags).begins_at,
                      IF finish_at # None THEN finish_at
                      ELSE timespan_span(tags).finish_at)
         IN [raised |-> "",
             tags |-> {t \in tags : contains(newspan, TagSpan(t))}]

ResliceInit ==
    /\ LibInit("Schedule")
    /\ \E tags \in Stores, requested \in SpanInputs :
         call = [op |-> "reslice", tags |-> tags,
                 begins_at |-> requested.begins_at,
                 finish_at |-> requested.finish_at,
                 done |-> FALSE,
                 timespan |-> [raised |-> "", tags |-> {}],
                 sqlite |-> [raised |-> "", tags |-> {}]]

\* the same reslice on a TimeSpan and on a SqliteTimeSpan of the same tags
Reslice ==
    /\ call.op = "reslice"
    /\ ~call.done
    /\ call' = [call EXCEPT
                   !.done = TRUE,
                   !.timespan = timespan_reslice(call.tags, call.begins_at,
                                                 call.finish_at),
                   !.sqlite = sqlite_reslice(call.tags, call.begins_at,
                                             call.finish_at)]
    /\ UNCHANGED schedVars

ResliceNext == Reslice

ResliceSpec == ResliceInit /\ [][ResliceNext]_vars


\* ------------------------------------------------ GoogleCalendarTimeSpan
\* the tags handed to insert_tag and remove_tag: two events with concrete
\* times that lie apart
GTags == {FiniteTag("e", 0, 1), FiniteTag("f", 2, 3)}
\* at most MaxOps calls of insert_tag and remove_tag, MaxFlushes of flush
MaxOps == 3
MaxFlushes == 3

\* An entry of dirty_queue (is_insert, tag); id numbers the calls of
\* insert_tag and remove_tag, to tell apart two entries of the same content.
QueueItem(id, is_insert, tag) ==
    [id |-> id, is_insert |-> is_insert, tag |-> tag]

\* GoogleCalendarTimeSpan(calendar_id, load_span, client) on a calendar
\* without events: server counts the events of the calendar by tag, cached
\* is _cached_timespan, requests logs the ids of the entries whose request
\* the API has carried out
GcalInit ==
    /\ LibInit("Schedule")
    /\ call = [op |-> "gcal", dirty_queue |-> <<>>, cached |-> {},
               server |-> [t \in GTags |-> 0], requests |-> <<>>,
               nops |-> 0, nflushes |-> 0, last |-> "init"]

\* insert_tag(tag): SqliteTimeSpan.insert_tag raises on a tag that is
\* stored already (the unique index), before the entry is queued
InsertTag ==
    /\ call.op = "gcal"
    /\ call.nops < MaxOps
    /\ \E tag \in GTags :
         IF tag \in call.cached
         THEN call' = [call EXCEPT !.nops = @ + 1,
                                   !.last = "ConstraintError"]
         ELSE call' = [call EXCEPT
                          !.nops = @ + 1,
                          !.cached = @ \cup {tag},
                          !.dirty_queue =
                              Append(@, QueueItem(call.nops + 1, TRUE, tag)),
                          !.last = "ok"]
    /\ UNCHANGED schedVars

\* remove_tag(tag)
RemoveTag ==
    /\ call.op = "gcal"
    /\ call.nops < MaxOps
    /\ \E tag \in GTags :
         call' = [call EXCEPT
                     !.nops = @ + 1,
                     !.cached = @ \ {tag},
                     !.dirty_queue =
                         Append(@, QueueItem(call.nops + 1, FALSE, tag)),
                     !.last = "ok"]
    /\ UNCHANGED schedVars

\* client.create_event / client.remove_events carried out for the first n
\* entries of the queue
RECURSIVE Apply(_, _, _)
Apply(server, queue, n) ==
    IF n = 0 THEN server
    ELSE LET before == Apply(server, queue, n - 1)
             item == queue[n]
         IN IF item.is_insert
            THEN [before EXCEPT ![item.tag] = @ + 1]
            ELSE [before EXCEPT ![item.tag] = 0]

\* flush(): the requests of the queue one after the other.  Either all of
\* them succeed (failed = 0), the queue is cleared and the cache is loaded
\* anew, which raises when the calendar holds an event twice; or the
\* request of entry `failed` raises (the assert of _post, an error of the
\* session) and flush ends there, with the entries before it carried out.
Flush ==
    /\ call.op = "gcal"
    /\ call.nflushes < MaxFlushes
    /\ \E failed \in 0..Len(call.dirty_queue) :
         LET n == IF failed = 0 THEN Len(call.dirty_queue) ELSE failed - 1
             server == Apply(call.server, call.dirty_queue, n)
             requests ==
                 call.requests \o
                 [i \in 1..n |-> call.dirty_queue[i].id]
         IN IF failed # 0
            THEN call' = [call EXCEPT !.nflushes = @ + 1,
                                      !.server = server,
                                      !.requests = requests,
                                      !.last = "flush raised"]
            ELSE IF \E t \in GTags : server[t] > 1
            THEN call' = [call EXCEPT !.nflushes = @ + 1,
                                      !.server = server,
                                      !.requests = requests,
                                      !.dirty_queue = <<>>,
                                      !.last = "ConstraintError"]
            ELSE call' = [call EXCEPT
                             !.nflushes = @ + 1,
                             !.server = server,
                             !.requests = requests,
                             !.dirty_queue = <<>>,
                             !.cached = {t \in GTags : server[t] > 0},
                             !.last = "flushed"]
    /\ UNCHANGED schedVars

GcalNext == InsertTag \/ RemoveTag \/ Flush

GcalSpec == GcalInit /\ [][GcalNext]_vars


\* ------------------------------------------------- cli: `calendars next`
\* the loop of whatsnext that fills slot_list.  The schedule definitions
\* loaded from the schedule files, by the events their schedule() declares;
\* "x" is the name of an event that is on the calendar already.
MaxSlots == 3
ScheduleEvents ==
    [daily |-> {"a", "b"}, chores |-> {"b", "c"}, empty |-> {}]
ScheduleNames == {"daily", "chores", "empty"}
\* populate attempts are counted up to this number
MaxAttempts == MaxSlots + 4

\* (mutant) an attempt that fails leaves unfeasible_count as it is
unfeasible_kept(count) == count

\* unfeasible_count += 1
unfeasible_incremented(count) == count + 1

Elems(seq) == {seq[i] : i \in 1..Len(seq)}

\* the state before `while len(slot_list) < slots`: slot_list holds the
\* next event of the calendar if there is one, unfeasible_count = 0
WhatsNextInit ==
    /\ LibInit("Schedule")
    /\ \E slots \in 0..MaxSlots, schedules \in SUBSET ScheduleNames,
          slot_list \in {<<>>, <<"x">>, <<"a">>} :
         call = [op |-> "whatsnext", slots |-> slots,
                 schedules |-> schedules, slot_list |-> slot_list,
                 unfeasible_count |-> 0, attempts |-> 0, pc |-> "loop"]

\* the loop condition fails, or one of the two breaks at the head of the
\* body is taken
WhatsNextExit ==
    /\ call.op = "whatsnext"
    /\ call.pc = "loop"
    /\ \/ ~(Len(call.slot_list) < call.slots)
       \/ call.unfeasible_count >= 3
       \/ call.schedules = {}
    /\ call' = [call EXCEPT !.pc = "done"]
    /\ UNCHANGED schedVars

\* one turn of the loop body past the two breaks: a schedule is chosen at
\* random; the loop breaks when all its events are in no_pick_first;
\* otherwise populate is attempted, and it raises ValueError, returns a
\* plan without tags, or returns a plan whose first tag has some name
WhatsNextTurn ==
    /\ call.op = "whatsnext"
    /\ call.pc = "loop"
    /\ Len(call.slot_list) < call.slots
    /\ call.unfeasible_count < 3
    /\ call.attempts < MaxAttempts
    /\ \E schedule_name \in call.schedules :
         LET names == ScheduleEvents[schedule_name]
             no_pick_first_ == names \cap Elems(call.slot_list)
         IN IF names \subseteq no_pick_first_
            THEN call' = [call EXCEPT !.pc = "done"]
            ELSE \/ call' = [call EXCEPT
                               !.attempts = @ + 1,
                               !.unfeasible_count =
                                   unfeasible_incremented(@)]
                 \/ \E first \in names \cup {"x"} :
                      call' = [call EXCEPT
                                  !.attempts = @ + 1,
                                  !.slot_list = Append(@, first)]
    /\ UNCHANGED schedVars

WhatsNextNext == WhatsNextTurn \/ WhatsNextExit

\* the loop is sequential code: it keeps taking its next step
WhatsNextSpec ==
    WhatsNextInit /\ [][WhatsNextNext]_vars /\ WF_vars(WhatsNextNext)

\* ================================================================ claims
Ok == result.status \in {"FEASIBLE", "OPTIMAL"}

TagOf(e) == CHOOSE t \in result.tags : t.name = e
InResult(e) == \E t \in result.tags : t.name = e

\* C1: no two tags of a populate result overlap in time: of two distinct
\* returned tags one ends no later than the other begins.
C1_NoOverlap ==
    Ok => \A t \in result.tags, u \in result.tags :
            t # u => \/ t.valid_to <= u.valid_from
                     \/ u.valid_to <= t.valid_from

\* two tags of non-zero length were returned, one right after the other
C1_Witness ==
    /\ Ok
    /\ \E t \in result.tags, u \in result.tags :
          /\ t.name # u.name
          /\ t.valid_from < t.valid_to
          /\ u.valid_from < u.valid_to
          /\ t.valid_to = u.valid_from

\* The calendar days of a span as a reader counts them: the days that
\* hold an instant of the span (the day of begins_at for an empty span).
DaysOf(span) ==
    {d \in 0..NDays :
        /\ d * DayLen <= span[2]
        /\ (d + 1) * DayLen > span[1]
        /\ (d * DayLen < span[2] \/ span[1] = span[2])}

\* C2: a returned event declared with between=(a, b) lies, start and stop,
\* between time a and time b of one calendar day of the populate span.
C2_Between ==
    Ok => \A e \in Names :
            (InResult(e) /\ events[e].between # None) =>
                \E d \in DaysOf(result.span) :
                    /\ TagOf(e).valid_from >= Combine(d, events[e].between[1])
                    /\ TagOf(e).valid_to <= Combine(d, events[e].between[2])

\* C3 as stated: for a rule not_within(a, b, gap) with a and b both in the
\* result, the later start minus the earlier stop is at least the gap.
C3_NotWithinDeclared ==
    Ok => \A e \in Names : \A r \in events[e].not_within :
            (InResult(e) /\ InResult(r[1])) =>
                Max2(TagOf(e).valid_from, TagOf(r[1]).valid_from)
                  - Min2(TagOf(e).valid_to, TagOf(r[1]).valid_to) >= r[2]

\* C3, amended: ... is at least the whole seconds of the gap.
C3_NotWithinSeconds ==
    Ok => \A e \in Names : \A r \in events[e].not_within :
            (InResult(e) /\ InResult(r[1])) =>
                Max2(TagOf(e).valid_from, TagOf(r[1]).valid_from)
                  - Min2(TagOf(e).valid_to, TagOf(r[1]).valid_to)
                    >= (r[2] \div TPS) * TPS

\* a and b of a rule are both in the result, exactly the whole seconds of
\* the gap apart
C3_Witness ==
    /\ Ok
    /\ \E e \in Names : \E r \in events[e].not_within :
          /\ InResult(e) /\ InResult(r[1])
          /\ Max2(TagOf(e).valid_from, TagOf(r[1]).valid_from)
               - Min2(TagOf(e).valid_to, TagOf(r[1]).valid_to)
                 = (r[2] \div TPS) * TPS

\* C4: a present event declared with after=other starts strictly after the
\* solved stop of other (a rule of an absent event binds nothing).
C4_After ==
    Ok => \A e \in Names : \A o \in events[e].after :
            result.sol[e].present =>
                /\ result.sol[o].stop # NoValue
                /\ result.sol[e].start > result.sol[o].stop

\* an event and the event it must come after are both in the result
C4_Witness ==
    /\ Ok
    /\ \E e \in Names : \E o \in events[e].after :
          /\ InResult(e) /\ InResult(o)
          /\ TagOf(e).valid_from > TagOf(o).valid_to

C6_InWindow ==
    Ok => \A t \in result.tags :
            LET ws == event_windows(kind, result.span)
            IN /\ \E i \in 1..Len(ws) : /\ t.valid_from >= ws[i][1]
                                        /\ t.valid_to <= ws[i][2]
               /\ t.valid_from >= result.span[1]
               /\ t.valid_to <= result.span[2]

\* C7 as stated: a returned tag is as long as the duration its event was
\* declared with.
C7_DurationDeclared ==
    Ok => \A t \in result.tags :
            t.valid_to - t.valid_from = events[t.name].duration

\* C7, amended: ... as long as the whole seconds of the declared duration.
C7_DurationSeconds ==
    Ok => \A t \in result.tags :
            t.valid_to - t.valid_from
              = (events[t.name].duration \div TPS) * TPS

\* a returned tag whose event was declared with a fraction of a second
C7_Witness ==
    /\ Ok
    /\ \E t \in result.tags :
          /\ events[t.name].duration % TPS # 0
          /\ t.valid_to - t.valid_from < events[t.name].duration

\* C8: every event declared with optional=False (not made from a
\* pre-existing tag) is exactly one tag of every successful populate.
C8_Mandatory ==
    Ok => \A e \in Names :
            (events[e].reg /\ ~events[e].optional
                /\ ~events[e].dont_schedule) =>
                Cardinality({t \in result.tags : t.name = e}) = 1

\* populate succeeded with a mandatory event in the result and an optional
\* one left out
C8_Witness ==
    /\ Ok
    /\ \E e \in Names, o \in Names :
          /\ events[e].reg /\ ~events[e].optional /\ InResult(e)
          /\ events[o].reg /\ events[o].optional /\ ~InResult(o)

RECURSIVE SumSizes(_)
SumSizes(S) ==
    IF S = {} THEN 0
    ELSE LET e == CHOOSE e \in S : TRUE
         IN events[e].interval + SumSizes(S \ {e})

RECURSIVE Room(_, _)
Room(ws, i) ==
    IF i > Len(ws) THEN 0
    ELSE Max2(0, (ws[i][2] \div TPS) - (ws[i][1] \div TPS)) + Room(ws, i + 1)

Mandatory == {e \in Names : events[e].reg /\ ~events[e].optional}

\* The mandatory events need more seconds than the windows have (than the
\* whole range of a variable when there is no window).
CannotFit ==
    LET ws == event_windows(kind, result.span)
    IN SumSizes(Mandatory) > (IF Len(ws) = 0 THEN UpperBound ELSE Room(ws, 1))

\* C9: when the mandatory events cannot all be placed populate fails with
\* the ValueError of solve and returns no tag at all.
C9_Infeasible ==
    (populated /\ CannotFit) =>
        (result.status = "ValueError" /\ result.tags = {})

\* two mandatory events, each of which fits by itself, do not fit together
C9_Witness ==
    /\ populated /\ CannotFit
    /\ result.status = "ValueError"
    /\ Cardinality(Mandatory) = 2
    /\ \A e \in Mandatory :
          events[e].interval
            <= Room(event_windows(kind, result.span), 1)

\* C10: populate on a Schedule with no declared event, no pre-existing tag
\* and no no_pick_first map succeeds and returns an empty Tag collection.
C10_EmptySchedule ==
    (populated /\ Registered(events) = {}
        /\ result.pre = <<>> /\ result.npf = {}) =>
        (Ok /\ result.tags = {})

\* --------------------------------------------------- pre-existing tags
\* the events populate made from a pre-existing tag of a new name
FromTag == {n \in Names : events[n].reg /\ events[n].dont_schedule}
\* the events the caller declared with add_event
Declared == {n \in Names : events[n].reg /\ ~events[n].dont_schedule}
PreTags == {result.pre[i] : i \in 1..Len(result.pre)}

C12_PinnedTimes ==
    Ok => \A p \in PreTags :
            /\ FromTimestamp(result.sol[p.name].start) = p.valid_from
            /\ FromTimestamp(result.sol[p.name].stop) = p.valid_to

Overlap(t, u) == t.valid_from < u.valid_to /\ u.valid_from < t.valid_to

\* C13: no returned tag overlaps a pre-existing tag of another name.
C13_NotOnTop ==
    Ok => \A p \in PreTags : \A t \in result.tags :
            t.name # p.name => ~Overlap(t, p)

\* populate was called with a declared event, no no_pick_first map, and
\* every declared event optional: leaving all of them out satisfies every
\* rule of the non-pinned events.
OnlyOptional ==
    /\ populated /\ result.npf = {}
    /\ Declared # {}
    /\ \A n \in Declared : events[n].optional

\* C14: the windows bind no pinned event: with one event made from a
\* pre-existing tag, wherever that tag lies, and every declared event
\* optional, populate succeeds.
C14_PinnedNoWindow ==
    (OnlyOptional /\ Cardinality(FromTag) = 1) => Ok

InSomeWindow(t) ==
    LET ws == event_windows(kind, result.span)
    IN \E i \in 1..Len(ws) : t.valid_from >= ws[i][1] /\ t.valid_to <= ws[i][2]

\* C15: the no-overlap constraint binds no pinned event: with pre-existing
\* tags of two new names that overlap each other, both inside a window, and
\* every declared event optional, populate succeeds.
C15_PinnedMayOverlap ==
    (/\ OnlyOptional
     /\ Cardinality(FromTag) = 2
     /\ \A p \in PreTags : InSomeWindow(p)
     /\ \E p \in PreTags, q \in PreTags : p.name # q.name /\ Overlap(p, q))
        => Ok

\* ------------------------------------------------------------ objective
NPresent(asg) == Cardinality({e \in Names : asg[e].present})

\* C16: when the solver reports OPTIMAL, no assignment that satisfies the
\* constraints of the model has more present events than the returned one.
C16_Optimal ==
    (Ok /\ result.status = "OPTIMAL") =>
        \/ NPresent(result.sol) = Cardinality(Registered(events))
        \/ \A asg \in Solutions(events, cons) :
              NPresent(asg) <= NPresent(result.sol)

\* an optimal result holds an optional event, though a declared event had
\* to be left out
C16_Witness ==
    /\ Ok /\ result.status = "OPTIMAL"
    /\ \E e \in Names : events[e].reg /\ events[e].optional /\ InResult(e)
    /\ \E e \in Names : events[e].reg /\ ~result.sol[e].present

\* -------------------------------------------------------- no_pick_first
\* C18: an event named in the no_pick_first map that is in the result comes
\* after another returned event, one that starts at or after the cutoff
\* and before the named event starts.
C18_NotFirst ==
    Ok => \A p \in result.npf :
            InResult(p[1]) =>
                \E t \in result.tags :
                    /\ t.name # p[1]
                    /\ t.valid_from >= p[2]
                    /\ t.valid_from < TagOf(p[1]).valid_from

\* ------------------------------------------------------- error handling
\* C19: add_event with a name that is already registered raises the
\* duplicate-name error and leaves the registry and the constraints of the
\* model as they were.
C19_Duplicate ==
    [][\A name \in DeclNames :
          (events[name].reg /\ AddEventOf(name)) =>
              /\ ret' = ErrDuplicate
              /\ events' = events
              /\ cons' = cons]_vars

\* add_event was refused for a registered name, whose event has a rule
C19_Witness ==
    /\ ret = ErrDuplicate
    /\ \E name \in DeclNames :
          events[name].reg /\ events[name].by # None

\* C20: populate over a span for which event_windows yields no window
\* raises a configuration error while it builds the model: it neither
\* succeeds nor gets as far as the solver.
C20_ZeroWindows ==
    (/\ populated
     /\ Registered(events) # {}
     /\ Len(event_windows(kind, result.span)) = 0)
        => ret \notin {"ok", ErrNonFeasible}

\* ---------------------------------------------------------------- chores
\* seconds from the chore's last instance to the beginning of the span
ElapsedAt(e) == ToTimestamp(result.span[1]) - events[e].chore[1][3]

\* e is overdue by 10 times its mean, o is exactly on schedule, they last
\* equally long and the span has room for one of them but not for both.
Compete(e, o) ==
    /\ e # o
    /\ events[e].chore # None /\ events[o].chore # None
    /\ events[e].interval = events[o].interval
    /\ LET room == ToTimestamp(result.span[2]) - ToTimestamp(result.span[1])
       IN events[e].interval <= room /\ room < 2 * events[e].interval
    /\ ElapsedAt(e) = 10 * events[e].chore[1][1]
    /\ ElapsedAt(o) = events[o].chore[1][1]

\* C17: of two chores that compete for one slot, one overdue by 10 times
\* its mean and one exactly on schedule, an optimal result holds the
\* overdue one.
C17_OverdueFirst ==
    (Ok /\ result.status = "OPTIMAL") =>
        \A e \in Names, o \in Names : Compete(e, o) => InResult(e)


\* C21: DailySchedule.event_windows(overall) yields one window per calendar
\* day of overall, each that day's [day_start, day_end] clipped to overall,
\* and every window has begins_at <= finish_at.
C21_Windows ==
    (call.op = "event_windows" /\ call.done) =>
        LET days == dates_between(call.overall)
        IN /\ Len(call.windows) = Len(days)
           /\ \A i \in 1..Len(days) :
                /\ call.windows[i][1] =
                       Max2(Combine(days[i], day_start), call.overall[1])
                /\ call.windows[i][2] =
                       Min2(Combine(days[i], day_end), call.overall[2])
                /\ call.windows[i][1] <= call.windows[i][2]


\* C22: the overlap test (a in b) is false exactly when one span begins at
\* or after the other's finish, a missing bound counting as infinitely
\* early or late, so spans that only touch at an endpoint do not overlap;
\* and the test is symmetric.
C22_Overlap ==
    (call.op = "in" /\ call.done) =>
        /\ call.a_in_b =
              ~(\/ BeginsOrMin(call.a) >= FinishOrMax(call.b)
                \/ BeginsOrMin(call.b) >= FinishOrMax(call.a))
        /\ call.a_in_b = call.b_in_a


\* C23: for a finite span and a positive duration d the pieces of
\* subspans(d) tile the span exactly: the first begins at begins_at, each
\* next one begins where the previous one finished, the last finishes at
\* finish_at, and every piece lasts d except the last, which lasts at most d.
C23_Tiling ==
    (call.op = "subspans" /\ call.done /\ call.duration > 0) =>
        LET p == call.pieces
            n == Len(p)
            len(i) == p[i].finish_at[1] - p[i].begins_at[1]
        IN /\ (n = 0) <=> (call.span.begins_at = call.span.finish_at)
           /\ n > 0 => /\ p[1].begins_at = call.span.begins_at
                       /\ p[n].finish_at = call.span.finish_at
                       /\ len(n) > 0
                       /\ len(n) <= call.duration
           /\ \A i \in 1..(n - 1) :
                /\ p[i + 1].begins_at = p[i].finish_at
                /\ len(i) = call.duration

\* C23 witness: a finished tiling of three pieces or more whose last piece
\* is shorter than the duration
C23_Witness ==
    /\ call.op = "subspans" /\ call.done /\ call.duration > 1
    /\ Len(call.pieces) >= 3
    /\ call.pieces[Len(call.pieces)].finish_at[1]
         - call.pieces[Len(call.pieces)].begins_at[1] < call.duration

\* C24: subspans terminates for every duration on a finite span (each piece
\* drawn moves the start forward), and a zero duration is rejected with an
\* error instead of producing pieces.
C24_Terminates ==
    [][call.op = "subspans" =>
         /\ call'.pieces # call.pieces => call'.start > call.start
         /\ call.duration = 0 => call'.pieces = <<>>]_vars


\* C25: constructing a Category succeeds exactly when the name is not empty,
\* starts with a letter and consists only of letters, digits, colon,
\* underscore, hyphen and space; otherwise it raises ValueError.
C25_NameRule ==
    (call.op = "Category" /\ call.done) =>
        (~call.raised <=>
            /\ Len(call.name) >= 1
            /\ call.name[1] \in Letters
            /\ \A i \in 1..Len(call.name) :
                 call.name[i] \in Letters \cup Digits
                                   \cup {":", "_", "-", " "})


\* C26: for every elapsed >= 0 the constraints of Frequency.tension_solver
\* are satisfiable and fix the scalar to
\* 3 - floor(|elapsed - mean| / tolerance): at most 3, 3 within one
\* tolerance of the mean, lower on either side of it.
C26_Scalar ==
    (call.op = "tension_solver" /\ call.done) =>
        call.scalars =
            {3 - (Abs(call.elapsed * TPS - call.mean) \div call.tolerance)}


\* C27: when add_event raises because both between and by were given, or
\* because after names an event that is not registered, the Schedule is
\* left as it was before the call: no event is registered under the
\* rejected name and no constraint of it stays in the model.
C27_RejectedUnchanged ==
    [][\A name \in DeclNames :
          (/\ ~events[name].reg
           /\ AddEventOf(name)
           /\ ret' \in {ErrByBetween, ErrAfter})
          => (events' = events /\ cons' = cons)]_vars


\* C28: SqliteTimeSpan.reslice returns the same set of tags as
\* TimeSpan.reslice for the same stored tags and the same (begins_at,
\* finish_at), None bounds included: exactly the tags whose span overlaps
\* the requested span.
C28_SameTags ==
    (call.op = "reslice" /\ call.done) =>
        /\ call.sqlite = call.timespan
        /\ call.sqlite.raised = ""
        /\ call.sqlite.tags =
              {t \in call.tags :
                  contains(Span(call.begins_at, call.finish_at), TagSpan(t))}


\* C29: after any sequence of insert_tag, remove_tag and flush, every queued
\* operation is sent exactly once and in order, by the first flush that
\* follows it; when flush returns the dirty queue is empty; and no operation
\* is sent again by a later flush, even if an earlier flush failed part-way.
C29_SentOnce ==
    call.op = "gcal" =>
        /\ \A i, j \in 1..Len(call.requests) :
              i < j => call.requests[i] < call.requests[j]
        /\ call.last = "flushed" => call.dirty_queue = <<>>


\* C30: the slot-filling loop of `calendars next` always terminates: every
\* turn adds one entry to slot_list, increments unfeasible_count or breaks,
\* so there are at most slots + 3 populate attempts, and the loop stops
\* after the third attempt that is infeasible or yields no events.
C30_Terminates ==
    /\ [](call.op = "whatsnext" =>
            /\ call.attempts <= call.slots + 3
            /\ call.unfeasible_count <= 3)
    /\ [][call.op = "whatsnext" /\ call'.pc = "loop" =>
            \/ Len(call'.slot_list) = Len(call.slot_list) + 1
            \/ call'.unfeasible_count = call.unfeasible_count + 1]_vars
    /\ <>(call.op = "whatsnext" /\ call.pc = "done")

\* C30 witness: the loop has ended after three failed attempts and at least
\* one that added a slot
C30_Witness ==
    /\ call.op = "whatsnext" /\ call.pc = "done"
    /\ call.unfeasible_count = 3
    /\ call.attempts >= 4
    /\ Len(call.slot_list) < call.slots

====
